---- MODULE Spec2Model ----
(***************************************************************************)
(* Model of dumpArena.py: the WoW PvP leaderboard ingestion pipeline.      *)
(* One run of main(): token acquisition, the interactive inputs, then the  *)
(* season loop with one fetch (+ optional enrichment) and one save per     *)
(* (season, bracket) unit, and the final summary.                          *)
(*                                                                         *)
(* Python values are modelled as follows.                                  *)
(*   str used as text that the code inspects (names, slugs, cache keys):   *)
(*       a sequence of code points.                                        *)
(*   dict: a function whose DOMAIN is the set of keys.                     *)
(*   Optional[x]: <<>> for None, <<x>> otherwise.                          *)
(*   a decoded JSON value: [type |-> "object" | "array" | "number",        *)
(*       obj |-> the dict of an object, <<>> otherwise].                   *)
(***************************************************************************)
EXTENDS Integers, Sequences, FiniteSets, TLC

----------------------------------------------------------------------------
(* Bounds of the model.                                                    *)

\* Responses per run that differ from the vendor's nominal answer.
MaxFaults == 1
\* Numbers typed in one comma-separated bracket choice.
MaxChoiceLen == 2
\* Largest season number typed in single-season mode.
MaxSeasonInput == 9

(* Program constants.                                                      *)

\* First season with the season-scoped API and the rbg bracket.
RbgSeason == 9
\* list(range(5, 12)) of the all-seasons mode.
AllSeasonsFrom == 5
AllSeasonsStop == 12

----------------------------------------------------------------------------
(* Python helpers.                                                         *)

None == <<>>
Some(x) == <<x>>
IsNone(x) == x = <<>>

EmptyDict == <<>>
Has(d, k) == k \in DOMAIN d
Get(d, k, default) == IF k \in DOMAIN d THEN d[k] ELSE default
Put(d, k, v) == [x \in (DOMAIN d) \cup {k} |-> IF x = k THEN v ELSE d[x]]

\* The value of a call, evaluated once: Once({F(r) : r \in {call}}) is F(call).
Once(S) == CHOOSE v \in S : TRUE

\* bool(d) of a dict
TruthyDict(d) == DOMAIN d # {}

NoToken == "<None>"
\* bool(self.access_token): None and "" are falsy
TruthyToken(t) == t # NoToken /\ t # ""

JObject(d) == [type |-> "object", obj |-> d]
JNumber == [type |-> "number", obj |-> EmptyDict]
JArray == [type |-> "array", obj |-> EmptyDict]

\* bool(v) of a decoded JSON value; the number is non-zero, the array is [].
TruthyJson(v) ==
    CASE v.type = "object" -> TruthyDict(v.obj)
      [] v.type = "number" -> TRUE
      [] OTHER -> FALSE

----------------------------------------------------------------------------
(* Cache key derivation, fetch_character_details lines 62-64.              *)

\* A full-Unicode lowering, which also maps A-grave to a-grave.
LowerAscii_Unicode(c) ==
    IF (65 <= c /\ c <= 90) \/ (192 <= c /\ c <= 222) THEN c + 32 ELSE c

\* c.lower() if 'A' <= c <= 'Z' else c
LowerAscii(c) == IF 65 <= c /\ c <= 90 THEN c + 32 ELSE c

RECURSIVE lowercase_name(_)
lowercase_name(s) ==
    IF s = <<>> THEN <<>> ELSE <<LowerAscii(Head(s))>> \o lowercase_name(Tail(s))

HexDigit(n) == IF n < 10 THEN 48 + n ELSE 55 + n
PctByte(b) == <<37, HexDigit(b \div 16), HexDigit(b % 16)>>

\* Characters quote() never escapes: letters, digits, "_.-~" and the safe "/".
QuoteSafe(c) ==
    \/ 65 <= c /\ c <= 90
    \/ 97 <= c /\ c <= 122
    \/ 48 <= c /\ c <= 57
    \/ c \in {95, 46, 45, 126, 47}

\* quote() encodes with UTF-8 and errors='strict': a lone surrogate, which a
\* JSON name can hold, makes line 63 raise UnicodeEncodeError.
IsSurrogate(c) == 55296 <= c /\ c <= 57343
QuoteRaises(s) == \E i \in DOMAIN s : IsSurrogate(s[i])

\* Every other character becomes the %XX of its UTF-8 bytes: one byte below
\* 128, two below 2048, three below 65536, four from there to 1114111.
\* Applied to the characters of strings for which quote() does not raise.
QuoteChar(c) ==
    IF QuoteSafe(c) THEN <<c>>
    ELSE IF c < 128 THEN PctByte(c)
    ELSE IF c < 2048
    THEN PctByte(192 + (c \div 64)) \o PctByte(128 + (c % 64))
    ELSE IF c < 65536
    THEN PctByte(224 + (c \div 4096)) \o PctByte(128 + ((c \div 64) % 64))
         \o PctByte(128 + (c % 64))
    ELSE PctByte(240 + (c \div 262144)) \o PctByte(128 + ((c \div 4096) % 64))
         \o PctByte(128 + ((c \div 64) % 64)) \o PctByte(128 + (c % 64))

RECURSIVE quote(_)
quote(s) == IF s = <<>> THEN <<>> ELSE QuoteChar(Head(s)) \o quote(Tail(s))

\* Lines 62-63: the name as it goes into the key and into the profile URL.
encoded_name(character_name) == quote(lowercase_name(character_name))

\* f"{realm_slug}:{encoded_name}"
cache_key(realm_slug, character_name) ==
    realm_slug \o <<58>> \o encoded_name(character_name)

----------------------------------------------------------------------------
(* Season-dependent policy.                                                *)

\* self.available_brackets, line 17
available_brackets == <<"2v2", "3v3", "5v5", "rbg">>

Range(s) == {s[i] : i \in DOMAIN s}

\* A variant without the season test of line 234.
get_available_brackets_AllSeasonsRbg(season) == <<"2v2", "3v3", "5v5", "rbg">>

\* A variant whose threshold is off by one: rbg only after season 9.
get_available_brackets_RbgAfter9(season) ==
    IF season > 9 THEN <<"2v2", "3v3", "5v5", "rbg">> ELSE <<"2v2", "3v3", "5v5">>

\* get_available_brackets_for_season, lines 232-239
get_available_brackets_for_season(season) ==
    IF season < RbgSeason THEN <<"2v2", "3v3", "5v5">>
    ELSE <<"2v2", "3v3", "5v5", "rbg">>

\* A variant that builds the season-scoped URL for every season.
get_api_url_SeasonScopedOnly(season, bracket) ==
    <<"https://tw.api.blizzard.com/data/wow", "pvp-season", ToString(season),
      "pvp-leaderboard", bracket>>

\* get_api_url, lines 47-56: the URL as its path segments
get_api_url(season, bracket) ==
    IF season >= RbgSeason
    THEN <<"https://tw.api.blizzard.com/data/wow", "pvp-season", ToString(season),
           "pvp-leaderboard", bracket>>
    ELSE <<"https://tw.api.blizzard.com/data/wow", "pvp-region", "0", "pvp-season",
           ToString(season), "pvp-leaderboard", bracket>>

\* save_raw_data line 247: f"{output_dir}/season_{season}_{bracket}_tw_arena.json"
FileName(output_dir, season, bracket) ==
    <<output_dir, "/season_", ToString(season), "_", bracket, "_tw_arena.json">>

\* A variant that keeps every selected bracket, offered or not.
FilterIn_KeepAll(selected, avail) == selected

\* [b for b in selected if b in available], lines 346 and 443
RECURSIVE FilterIn(_, _)
FilterIn(selected, avail) ==
    IF selected = <<>> THEN <<>>
    ELSE IF Head(selected) \in Range(avail)
         THEN <<Head(selected)>> \o FilterIn(Tail(selected), avail)
         ELSE FilterIn(Tail(selected), avail)

----------------------------------------------------------------------------
(* The vendor's data: leaderboard bodies and character profiles.           *)

RealmR == <<114>>
Unknown == <<117, 110, 107, 110, 111, 119, 110>>

\* "Ab" and "ab" on realm "r" share a cache key; "J" has no realm (the code
\* falls back to 'unknown'); the last ref has no name.
RefA == [name |-> <<65, 98>>, realm |-> [slug |-> RealmR]]
RefALower == [name |-> <<97, 98>>, realm |-> [slug |-> RealmR]]
RefB == [name |-> <<74>>]
RefNameless == [realm |-> [slug |-> RealmR]]

Solo(ref) == [character |-> ref, rank |-> 1]
Team(refs) == [team |-> [members |-> [i \in DOMAIN refs |-> [character |-> refs[i]]]]]
Other == [rank |-> 1]

BodyEmptyObject == JObject(EmptyDict)
BodyZero == JObject([entries |-> <<>>])
BodySolo == JObject([entries |-> <<Solo(RefA), Other, Solo(RefALower)>>])
BodyTeam == JObject([entries |-> <<Team(<<RefA, RefB>>), Team(<<RefNameless, RefA>>)>>])
BodyError == JObject([error |-> [message |-> "Not Found"]])

\* Response texts: decodable values, the empty text and undecodable text.
TextEmpty == [type |-> "empty", obj |-> EmptyDict]
TextMalformed == [type |-> "malformed", obj |-> EmptyDict]

Profile1 == JObject([character_class |-> "Mage", race |-> "Human"])
Profile2 == JObject([character_class |-> "Rogue"])
Profile0 == JObject(EmptyDict)

\* An outcome of one HTTP request: the call raises `exc`, or it returns a
\* response with a status and a body text.
Raise(exc) == [kind |-> "raise", exc |-> exc, status |-> 0, body |-> TextEmpty]
Http(status, body) == [kind |-> "http", exc |-> "", status |-> status, body |-> body]

\* What the vendor answers when nothing goes wrong: a leaderboard of solo
\* entries (the season 9+ format) or of teams (the older format), an empty
\* leaderboard for 3v3 and an empty object for 5v5; the same profile for
\* every character.
NominalBody(season, bracket) ==
    CASE bracket = "3v3" -> BodyZero
      [] bracket = "5v5" -> BodyEmptyObject
      [] bracket = "2v2" /\ season >= RbgSeason -> BodySolo
      [] OTHER -> BodyTeam
NominalLb(season, bracket) == Http(200, NominalBody(season, bracket))
NominalLookup == Http(200, Profile1)

\* The outcomes of a leaderboard request: the nominal answer, or a fault.
LbFaults ==
    {Raise(e) : e \in {"Timeout", "ConnectionError", "RequestException"}}
    \cup {Http(500, TextMalformed), Http(404, BodyError)}
    \cup {Http(200, b) : b \in {TextEmpty, TextMalformed, JArray, JNumber, BodyError}}
LbOutcomes(season, bracket) == {NominalLb(season, bracket)} \cup LbFaults

\* The outcomes of a character-profile request.
LookupOutcomes ==
    {Raise("Timeout"), Http(404, BodyError), Http(200, TextMalformed)}
    \cup {Http(200, b) : b \in {Profile1, Profile2, Profile0, JNumber}}

----------------------------------------------------------------------------
(* Enrichment: fetch_character_details, enrich_character_data and          *)
(* process_entries_with_character_details.  The state threaded through is  *)
(* st = [cache, outs, log, exc]: the character cache, the outcomes of the  *)
(* network calls still to come, the log of the lookups made, and the       *)
(* exception in flight ("" when none).                                     *)

\* A lookup: its key, whether it went to the network, the HTTP status of the
\* response (0 when there was none) and the value returned.
LogEntry(key, net, status, res) ==
    [key |-> key, net |-> net, status |-> status, res |-> res]

\* The outcome of the next character-profile request and the outcomes left
\* after it; a request beyond the outcomes offered gets the nominal answer.
NextOutcome(outs) == IF outs = <<>> THEN NominalLookup ELSE Head(outs)
RestOutcomes(outs) == IF outs = <<>> THEN <<>> ELSE Tail(outs)

\* requests.get of line 88 answered 200 with a body response.json() decodes.
LookupOk(out) ==
    /\ out.kind = "http"
    /\ out.status = 200
    /\ out.body.type \notin {"empty", "malformed"}

\* A variant that also stores the decoded body of a response that is not 200.
RequestDetails_CacheAnyStatus(key, st, out) ==
    LET res == IF LookupOk(out) THEN Some(out.body) ELSE None
    IN [res |-> res,
        st |-> [st EXCEPT !.outs = RestOutcomes(@),
                          !.log = Append(@, LogEntry(key, TRUE, out.status, res)),
                          !.cache = IF out.kind = "http" /\ out.body.type = "object"
                                    THEN Put(@, key, out.body) ELSE @]]

\* The request of lines 71-102: [res, st]
RequestDetails(key, st, out) ==
    LET res == IF LookupOk(out) THEN Some(out.body) ELSE None
    IN [res |-> res,
        st |-> [st EXCEPT !.outs = RestOutcomes(@),
                          !.log = Append(@, LogEntry(key, TRUE, out.status, res)),
                          !.cache = IF LookupOk(out) THEN Put(@, key, out.body) ELSE @]]

\* A variant without the cache check of lines 65-66.
FetchDetailsByKey_NoCacheCheck(token, key, st) ==
    IF ~TruthyToken(token)
    THEN [res |-> None, st |-> [st EXCEPT !.log = Append(@, LogEntry(key, FALSE, 0, None))]]
    ELSE RequestDetails(key, st, NextOutcome(st.outs))

\* A variant without the cache store of line 93.
FetchDetailsByKey_NoCacheStore(token, key, st) ==
    IF key \in DOMAIN st.cache
    THEN [res |-> Some(st.cache[key]),
          st |-> [st EXCEPT !.log = Append(@, LogEntry(key, FALSE, 0, Some(st.cache[key])))]]
    ELSE IF ~TruthyToken(token)
    THEN [res |-> None, st |-> [st EXCEPT !.log = Append(@, LogEntry(key, FALSE, 0, None))]]
    ELSE [res |-> RequestDetails(key, st, NextOutcome(st.outs)).res,
          st |-> [RequestDetails(key, st, NextOutcome(st.outs)).st
                      EXCEPT !.cache = st.cache]]

\* Lines 65-102 of fetch_character_details, once the key is derived.
FetchDetailsByKey(token, key, st) ==
    IF key \in DOMAIN st.cache
    THEN [res |-> Some(st.cache[key]),
          st |-> [st EXCEPT !.log = Append(@, LogEntry(key, FALSE, 0, Some(st.cache[key])))]]
    ELSE IF ~TruthyToken(token)
    THEN [res |-> None, st |-> [st EXCEPT !.log = Append(@, LogEntry(key, FALSE, 0, None))]]
    ELSE RequestDetails(key, st, NextOutcome(st.outs))

\* fetch_character_details, lines 59-102: [res |-> Optional[details], st]
\* Line 63 is outside the try of lines 71-102: an exception of quote() leaves
\* the function.
fetch_character_details(token, realm_slug, character_name, st) ==
    IF QuoteRaises(lowercase_name(character_name))
    THEN [res |-> None, st |-> [st EXCEPT !.exc = "UnicodeEncodeError"]]
    ELSE Once({FetchDetailsByKey(token, key, st)
               : key \in {cache_key(realm_slug, character_name)}})

\* Lines 115-124: the two fields copied from the details dict.
CopyFields(character_data, details) ==
    LET d1 == IF Has(details, "character_class")
              THEN Put(character_data, "playable_class", details["character_class"])
              ELSE character_data
    IN IF Has(details, "race") THEN Put(d1, "playable_race", details["race"]) ELSE d1

\* A variant without the test of line 113: 'character_class' in None raises
\* TypeError.
MergeDetails_NoneUnchecked(character_data, lookup) ==
    Once({IF IsNone(r.res)
          THEN [ref |-> character_data, st |-> [r.st EXCEPT !.exc = "TypeError"]]
          ELSE IF r.res[1].type # "object"
          THEN [ref |-> character_data, st |-> [r.st EXCEPT !.exc = "TypeError"]]
          ELSE [ref |-> CopyFields(character_data, r.res[1].obj), st |-> r.st]
          : r \in {lookup}})

\* Lines 113-126 of enrich_character_data, given the result r = [res, st] of
\* the lookup; 'character_class' in <number> raises TypeError.
MergeDetails(character_data, lookup) ==
    Once({IF IsNone(r.res) THEN [ref |-> character_data, st |-> r.st]
          ELSE IF ~TruthyJson(r.res[1]) THEN [ref |-> character_data, st |-> r.st]
          ELSE IF r.res[1].type # "object"
          THEN [ref |-> character_data, st |-> [r.st EXCEPT !.exc = "TypeError"]]
          ELSE [ref |-> CopyFields(character_data, r.res[1].obj), st |-> r.st]
          : r \in {lookup}})

\* enrich_character_data, lines 104-126: [ref, st]
enrich_character_data(token, character_data, realm_slug, st) ==
    IF Get(character_data, "name", <<>>) = <<>>
    THEN [ref |-> character_data, st |-> st]
    ELSE MergeDetails(character_data,
             fetch_character_details(token, realm_slug, character_data["name"], st))

\* entry['character'].get('realm', {}).get('slug', 'unknown')
RealmSlug(character) == Get(Get(character, "realm", EmptyDict), "slug", Unknown)

\* holder['character'] = <the enriched ref>, lines 141 and 148: [item, st],
\* given the result [ref, st] of enrich_character_data.
SetCharacter(holder, enriched) ==
    Once({[item |-> Put(holder, "character", r.ref), st |-> r.st] : r \in {enriched}})

\* A list result with one more item in front.
ConsItem(item, rest) ==
    Once({[list |-> <<item>> \o r.list, st |-> r.st] : r \in {rest}})

\* Lines 146-148 for one member: [item, st]
EnrichMember(token, member, st) ==
    IF Has(member, "character")
    THEN SetCharacter(member,
             enrich_character_data(token, member["character"],
                                   RealmSlug(member["character"]), st))
    ELSE [item |-> member, st |-> st]

\* The member loop of lines 145-148: [list, st].  An exception in flight ends
\* the loop.
RECURSIVE EnrichMembers(_, _, _)
EnrichMembersFrom(token, members, first) ==
    Once({ConsItem(r.item, EnrichMembers(token, Tail(members), r.st)) : r \in {first}})
EnrichMembers(token, members, st) ==
    IF members = <<>> \/ st.exc # "" THEN [list |-> members, st |-> st]
    ELSE EnrichMembersFrom(token, members, EnrichMember(token, Head(members), st))

\* entry['team']['members'] after the member loop: [item, st]
SetMembers(entry, members) ==
    Once({[item |-> Put(entry, "team", Put(entry["team"], "members", r.list)),
           st |-> r.st] : r \in {members}})

\* One iteration of the loop of lines 135-150: [item, st]
EnrichEntry(token, entry, st) ==
    IF Has(entry, "character")
    THEN SetCharacter(entry,
             enrich_character_data(token, entry["character"],
                                   RealmSlug(entry["character"]), st))
    ELSE IF Has(entry, "team") /\ Has(entry["team"], "members")
    THEN SetMembers(entry, EnrichMembers(token, entry["team"]["members"], st))
    ELSE [item |-> entry, st |-> st]

\* process_entries_with_character_details, lines 128-158: [list, st]
RECURSIVE process_entries_with_character_details(_, _, _)
ProcessEntriesFrom(token, entries, first) ==
    Once({ConsItem(r.item,
                   process_entries_with_character_details(token, Tail(entries), r.st))
          : r \in {first}})
process_entries_with_character_details(token, entries, st) ==
    IF entries = <<>> \/ st.exc # "" THEN [list |-> entries, st |-> st]
    ELSE ProcessEntriesFrom(token, entries, EnrichEntry(token, Head(entries), st))

----------------------------------------------------------------------------
(* fetch_bracket_data, lines 160-230.                                      *)

\* A variant without the catch-all clause of lines 228-230.
ExceptClause_NoCatchAll(exc) ==
    CASE exc = "Timeout" -> "Timeout"
      [] exc = "ConnectionError" -> "ConnectionError"
      [] exc = "JSONDecodeError" -> "JSONDecodeError"
      [] OTHER -> ""

\* The except clause of lines 219-230 that handles `exc` ("" when none does):
\* every exception the try block can raise derives from Exception.
ExceptClause(exc) ==
    CASE exc = "Timeout" -> "Timeout"
      [] exc = "ConnectionError" -> "ConnectionError"
      [] exc = "JSONDecodeError" -> "JSONDecodeError"
      [] OTHER -> "Exception"

\* Results of the try block: [exc, data, st].
TryReturn(data, st) == [exc |-> "", data |-> data, st |-> st]
TryRaise(exc, st) == [exc |-> exc, data |-> None, st |-> st]

\* Lines 214-217: data['entries'] = <the processed entries>; return data
SetEntries(data, processed) ==
    Once({IF r.st.exc # "" THEN TryRaise(r.st.exc, r.st)
          ELSE TryReturn(Some(Put(data, "entries", r.list)), r.st)
          : r \in {processed}})

\* A variant without the enrich_data test of line 212.
FetchDecoded_AlwaysEnrich(token, enrich, data, st) ==
    IF Has(data, "error") THEN TryReturn(None, st)
    ELSE IF Len(Get(data, "entries", <<>>)) > 0
    THEN SetEntries(data,
             process_entries_with_character_details(token, data["entries"], st))
    ELSE TryReturn(Some(data), st)

\* Lines 204-217, for a body decoded to the dict `data`.
FetchDecoded(token, enrich, data, st) ==
    IF Has(data, "error") THEN TryReturn(None, st)
    ELSE IF enrich /\ Len(Get(data, "entries", <<>>)) > 0
    THEN SetEntries(data,
             process_entries_with_character_details(token, data["entries"], st))
    ELSE TryReturn(Some(data), st)

\* The try block, lines 176-217, given the outcome `out` of the leaderboard
\* request and the enrichment state st.
FetchTry(token, enrich, out, st) ==
    IF out.kind = "raise" THEN TryRaise(out.exc, st)
    ELSE IF out.status # 200 THEN TryReturn(None, st)
    ELSE IF out.body.type = "empty" THEN TryReturn(None, st)
    ELSE IF out.body.type = "malformed" THEN TryRaise("JSONDecodeError", st)
    ELSE IF out.body.type = "number" THEN TryRaise("TypeError", st)
    ELSE IF out.body.type = "array" THEN TryRaise("AttributeError", st)
    ELSE FetchDecoded(token, enrich, out.body.obj, st)

\* Lines 219-230: the except clauses applied to the try block's result.
\* [result, url, st, escaped]: the returned Optional[Dict], the URL requested
\* (None when no request was issued), the enrichment state after the call and
\* the exception that leaves the function ("" when none).
FetchExcept(url, try) ==
    Once({IF t.exc = ""
          THEN [result |-> t.data, url |-> Some(url), st |-> t.st, escaped |-> ""]
          ELSE IF ExceptClause(t.exc) # ""
          THEN [result |-> None, url |-> Some(url), st |-> t.st, escaped |-> ""]
          ELSE [result |-> None, url |-> Some(url), st |-> t.st, escaped |-> t.exc]
          : t \in {try}})

\* The early returns of lines 162-173.
FetchEarly(st) == [result |-> None, url |-> None, st |-> st, escaped |-> ""]

fetch_bracket_data(token, bracket, season, enrich, out, st) ==
    IF ~TruthyToken(token) THEN FetchEarly(st)
    ELSE IF season < RbgSeason /\ bracket = "rbg" THEN FetchEarly(st)
    ELSE IF bracket \notin Range(available_brackets) THEN FetchEarly(st)
    ELSE FetchExcept(get_api_url(season, bracket), FetchTry(token, enrich, out, st))

----------------------------------------------------------------------------
(* save_raw_data, lines 241-257.                                           *)

SaveOutcomes == {"ok", "makedirs_error", "open_error", "write_error"}

FileOf(data) == [complete |-> TRUE, data |-> data]
\* open(filename, "w") has truncated the file and json.dump failed part-way.
PartialFile == [complete |-> FALSE, data |-> EmptyDict]

\* [filename, files]: the returned path ("" is <<>>) and the directory after.
save_raw_data(data, bracket, season, output_dir, fs, outcome) ==
    LET filename == FileName(output_dir, season, bracket) IN
    CASE outcome = "ok" ->
           [filename |-> filename, files |-> Put(fs, filename, FileOf(data))]
      [] outcome = "write_error" ->
           [filename |-> <<>>, files |-> Put(fs, filename, PartialFile)]
      [] OTHER -> [filename |-> <<>>, files |-> fs]

----------------------------------------------------------------------------
(* get_access_token, lines 20-45.                                          *)

TokenOutcomes ==
    {Raise("ConnectionError"), Http(401, BodyError), Http(200, TextMalformed),
     Http(200, JNumber), Http(200, JArray), Http(200, BodyEmptyObject),
     Http(200, JObject([access_token |-> ""])),
     Http(200, JObject([access_token |-> "tok"]))}

\* A variant that reports success whatever the response was.
get_access_token_IgnoresFailure(token, out) ==
    IF out.kind = "http" /\ out.status = 200 /\ out.body.type = "object"
       /\ Has(out.body.obj, "access_token")
    THEN [ok |-> TRUE, token |-> out.body.obj["access_token"]]
    ELSE [ok |-> TRUE, token |-> token]

\* A variant that takes every HTTP 200 object body for a token answer.
get_access_token_StatusOnly(token, out) ==
    IF out.kind = "http" /\ out.status = 200 /\ out.body.type = "object"
    THEN [ok |-> TRUE, token |-> Get(out.body.obj, "access_token", token)]
    ELSE [ok |-> FALSE, token |-> token]

\* [ok, token]: the returned bool and self.access_token after the call.
get_access_token(token, out) ==
    LET fail == [ok |-> FALSE, token |-> token] IN
    IF out.kind = "raise" THEN fail
    ELSE IF out.status # 200 THEN fail
    ELSE IF out.body.type \in {"empty", "malformed"} THEN fail
    ELSE IF out.body.type = "number" THEN fail
    ELSE IF out.body.type = "array" THEN fail
    ELSE IF Has(out.body.obj, "access_token")
         THEN [ok |-> TRUE, token |-> out.body.obj["access_token"]]
         ELSE fail

----------------------------------------------------------------------------
(* The interactive inputs.                                                 *)

\* get_user_choice, lines 259-299, for one typed line given as its numbers:
\* [valid, selected]; an invalid line is asked again.
RECURSIVE PickOptions(_, _)
PickOptions(options, indices) ==
    IF indices = <<>> THEN <<>>
    ELSE <<options[Head(indices)]>> \o PickOptions(options, Tail(indices))

RECURSIVE DropRbg(_)
DropRbg(options) ==
    IF options = <<>> THEN <<>>
    ELSE IF Head(options) # "rbg" THEN <<Head(options)>> \o DropRbg(Tail(options))
    ELSE DropRbg(Tail(options))

get_user_choice(options, choice) ==
    LET has_rbg == "rbg" \in Range(options) IN
    IF choice = <<0>> THEN [valid |-> TRUE, selected |-> <<>>]
    ELSE IF choice = <<Len(options) + 1>> THEN [valid |-> TRUE, selected |-> options]
    ELSE IF has_rbg /\ choice = <<Len(options) + 2>>
    THEN [valid |-> TRUE, selected |-> DropRbg(options)]
    ELSE IF \A i \in DOMAIN choice : 1 <= choice[i] /\ choice[i] <= Len(options)
    THEN [valid |-> TRUE, selected |-> PickOptions(options, choice)]
    ELSE [valid |-> FALSE, selected |-> <<>>]

\* list(range(5, 12)), line 329
AllSeasons == [i \in 1..(AllSeasonsStop - AllSeasonsFrom) |-> AllSeasonsFrom + i - 1]

\* max(seasons), line 401
RECURSIVE MaxOf(_)
MaxOf(s) ==
    IF Len(s) = 1 THEN s[1]
    ELSE LET m == MaxOf(Tail(s)) IN IF Head(s) > m THEN Head(s) ELSE m

----------------------------------------------------------------------------
(* The character refs of a list of entries, in the order the enrichment    *)
(* visits them.                                                            *)

RECURSIVE MemberRefs(_)
MemberRefs(members) ==
    IF members = <<>> THEN <<>>
    ELSE (IF Has(Head(members), "character") THEN <<Head(members)["character"]>> ELSE <<>>)
         \o MemberRefs(Tail(members))

EntryRefs(entry) ==
    IF Has(entry, "character") THEN <<entry["character"]>>
    ELSE IF Has(entry, "team") /\ Has(entry["team"], "members")
    THEN MemberRefs(entry["team"]["members"])
    ELSE <<>>

RECURSIVE AllRefs(_)
AllRefs(entries) ==
    IF entries = <<>> THEN <<>> ELSE EntryRefs(Head(entries)) \o AllRefs(Tail(entries))

\* The sequences of n lookup outcomes of which at most k are not nominal.
RECURSIVE OutcomeSeqs(_, _)
OutcomeSeqs(n, k) ==
    IF n = 0 THEN {<<>>}
    ELSE {<<NominalLookup>> \o s : s \in OutcomeSeqs(n - 1, k)}
         \cup (IF k > 0
               THEN {<<o>> \o s : o \in LookupOutcomes \ {NominalLookup},
                                  s \in OutcomeSeqs(n - 1, k - 1)}
               ELSE {})

\* The refs among `refs` that a lookup would request over the network: they
\* have a name and their key is not cached.
RECURSIVE Uncached(_, _)
Uncached(refs, cache) ==
    IF refs = <<>> THEN <<>>
    ELSE (IF /\ Get(Head(refs), "name", <<>>) # <<>>
             /\ cache_key(RealmSlug(Head(refs)), Head(refs)["name"]) \notin DOMAIN cache
          THEN <<Head(refs)>> ELSE <<>>)
         \o Uncached(Tail(refs), cache)

\* The most character lookups a fetch with outcome `out` can make.
LookupSlots(token, enrich, out, cache) ==
    IF /\ TruthyToken(token)
       /\ enrich
       /\ out.kind = "http"
       /\ out.status = 200
       /\ out.body.type = "object"
       /\ ~Has(out.body.obj, "error")
    THEN Len(Uncached(AllRefs(Get(out.body.obj, "entries", <<>>)), cache))
    ELSE 0

\* The lookups of `log` that went to the network for `key`, and the values
\* the lookups of `log` returned for `key`.
NetCalls(log, key) == Cardinality({i \in DOMAIN log : log[i].key = key /\ log[i].net})
Returned(log, key) == {log[i].res : i \in {j \in DOMAIN log : log[j].key = key}}
LogKeys(log) == {log[i].key : i \in DOMAIN log}

----------------------------------------------------------------------------
(* The run of main(), lines 380-476.                                       *)

VARIABLES
    pc,                 \* where main() is
    access_token,       \* self.access_token
    character_cache,    \* self.character_cache
    seasons,            \* the list get_season_input returned
    selected_brackets,  \* the list get_user_choice returned
    enrich_data,        \* the y/n answer
    si,                 \* index of the season of the loop of line 437
    season_brackets,    \* process_single_season's filtered list
    bi,                 \* index of the bracket of the loop of line 360
    success_count,      \* process_single_season's counter
    total_success,      \* main's counters
    total_possible,
    raw_data,           \* what fetch_bracket_data returned
    filename,           \* what save_raw_data returned, None when it was not called
    files,              \* the output directory: file name -> content
    tally,              \* the tally the summary printed
    faults,             \* non-nominal responses so far
    token_requests,     \* number of token requests issued
    lb_response,        \* the response to the leaderboard request of the last fetch
    lb_log,             \* URLs of the leaderboard requests issued
    fetch_log,          \* (season, bracket) of the calls of fetch_bracket_data
    lookup_log,         \* the calls of fetch_character_details of the last fetch
    profile_requests,   \* cache key -> number of character-profile requests issued
    profile_results,    \* cache key -> the values fetch_character_details returned
    save_log,           \* (season, bracket) of the calls of save_raw_data
    token_response,     \* the response to the token request, None before it
    saved_log,          \* (season, bracket) of the saves that returned a path
    probe               \* a function applied on its own: its inputs and its result

vars == <<pc, access_token, character_cache, seasons, selected_brackets, enrich_data,
          si, season_brackets, bi, success_count, total_success, total_possible,
          raw_data, filename, files, tally, faults, token_requests, lb_response, lb_log,
          fetch_log, lookup_log, profile_requests, profile_results, save_log,
          token_response, saved_log, probe>>

\* No function is being applied on its own.
NoProbe == [fn |-> "", args |-> <<>>, applied |-> FALSE, out |-> <<>>]

\* main() has not started: nothing asked, fetched, saved or counted yet.
MainNotStarted ==
    /\ pc = "token"
    /\ seasons = <<>>
    /\ selected_brackets = <<>>
    /\ enrich_data = FALSE
    /\ si = 1
    /\ season_brackets = <<>>
    /\ bi = 1
    /\ success_count = 0
    /\ total_success = 0
    /\ total_possible = 0
    /\ raw_data = None
    /\ filename = None
    /\ files = EmptyDict
    /\ tally = None
    /\ faults = 0
    /\ token_requests = 0
    /\ lb_response = None
    /\ lb_log = <<>>
    /\ fetch_log = <<>>
    /\ lookup_log = <<>>
    /\ profile_requests = EmptyDict
    /\ profile_results = EmptyDict
    /\ save_log = <<>>
    /\ token_response = None
    /\ saved_log = <<>>

\* __init__, lines 11-18: no token, an empty cache.
Init ==
    /\ MainNotStarted
    /\ access_token = NoToken
    /\ character_cache = EmptyDict
    /\ probe = NoProbe

\* Lines 392-395: the token request; a failure ends the run.
GetAccessToken ==
    /\ pc = "token"
    /\ \E out \in TokenOutcomes :
         LET r == get_access_token(access_token, out) IN
         /\ access_token' = r.token
         /\ token_response' = Some(out)
         /\ pc' = IF r.ok THEN "season_input" ELSE "aborted"
    /\ token_requests' = token_requests + 1
    /\ UNCHANGED <<character_cache, seasons, selected_brackets, enrich_data, si,
                   season_brackets, bi, success_count, total_success, total_possible,
                   raw_data, filename, files, tally, faults, lb_response, lb_log, fetch_log,
                   lookup_log, profile_requests,
                   profile_results, save_log, saved_log, probe>>

\* get_season_input, lines 301-336: one season >= 1, or seasons 5..11.
get_season_input(mode, season_num) == IF mode = 1 THEN <<season_num>> ELSE AllSeasons

\* Line 398.  The input() calls of lines 309, 315 and 328 are inside handlers
\* of ValueError only: at the end of stdin EOFError leaves main().
GetSeasonInput ==
    /\ pc = "season_input"
    /\ \/ /\ \E mode \in {1, 2}, season_num \in 1..MaxSeasonInput :
               seasons' = get_season_input(mode, season_num)
          /\ pc' = "bracket_choice"
       \/ /\ pc' = "eof"
          /\ UNCHANGED seasons
    /\ UNCHANGED <<access_token, character_cache, selected_brackets, enrich_data, si,
                   season_brackets, bi, success_count, total_success, total_possible,
                   raw_data, filename, files, tally, faults, token_requests, lb_response, lb_log,
                   fetch_log, lookup_log, profile_requests,
                   profile_results, save_log,
                   token_response, saved_log, probe>>

Choices(options) ==
    UNION {[1..k -> 0..(Len(options) + 2)] : k \in 1..MaxChoiceLen}

\* Lines 401-416: the bracket menu of the highest season; an empty selection
\* ends the run, and so does EOFError from the input() of line 276.
GetUserChoice ==
    /\ pc = "bracket_choice"
    /\ \/ LET all_possible_brackets == get_available_brackets_for_season(MaxOf(seasons)) IN
          \E choice \in Choices(all_possible_brackets) :
            LET r == get_user_choice(all_possible_brackets, choice) IN
            /\ r.valid
            /\ selected_brackets' = r.selected
            /\ pc' = IF r.selected = <<>> THEN "no_brackets" ELSE "enrich_choice"
       \/ /\ pc' = "eof"
          /\ UNCHANGED selected_brackets
    /\ UNCHANGED <<access_token, character_cache, seasons, enrich_data, si,
                   season_brackets, bi, success_count, total_success, total_possible,
                   raw_data, filename, files, tally, faults, token_requests, lb_response, lb_log,
                   fetch_log, lookup_log, profile_requests,
                   profile_results, save_log,
                   token_response, saved_log, probe>>

\* Lines 423-433: the enrichment answer, then the counters of the season loop;
\* the input() of line 423 is in no try: at the end of stdin EOFError leaves
\* main().
GetEnrichChoice ==
    /\ pc = "enrich_choice"
    /\ \/ /\ \E answer \in BOOLEAN : enrich_data' = answer
          /\ total_success' = 0
          /\ total_possible' = 0
          /\ si' = 1
          /\ pc' = "season"
       \/ /\ pc' = "eof"
          /\ UNCHANGED <<enrich_data, total_success, total_possible, si>>
    /\ UNCHANGED <<access_token, character_cache, seasons, selected_brackets,
                   season_brackets, bi, success_count, raw_data, filename, files, tally, faults,
                   token_requests, lb_response, lb_log, fetch_log, lookup_log, profile_requests,
                   profile_results, save_log,
                   token_response, saved_log, probe>>

\* process_single_season, lines 344-359: the brackets of this season.
StartSeason ==
    /\ pc = "season"
    /\ LET avail == get_available_brackets_for_season(seasons[si])
           sb == FilterIn(selected_brackets, avail)
       IN /\ season_brackets' = sb
          /\ pc' = IF sb = <<>> THEN "season_end" ELSE "bracket"
    /\ success_count' = 0
    /\ bi' = 1
    /\ UNCHANGED <<access_token, character_cache, seasons, selected_brackets, enrich_data,
                   si, total_success, total_possible, raw_data, filename, files, tally, faults,
                   token_requests, lb_response, lb_log, fetch_log, lookup_log, profile_requests,
                   profile_results, save_log,
                   token_response, saved_log, probe>>

\* The enrichment state at the start of a fetch.
StartState(outs) == [cache |-> character_cache, outs |-> outs, log |-> <<>>, exc |-> ""]

\* A variant whose loop stops at the first bracket that was not fetched.
AfterBracket_StopsOnFailure(escaped, fetched, index, count) ==
    IF escaped # "" THEN "crashed"
    ELSE IF ~fetched THEN "season_end"
    ELSE IF index = count THEN "season_end" ELSE "bracket"

\* Where main() is after iteration `index` of the `count` iterations of the
\* loop of lines 360-375: the loop has no break, so whether the bracket was
\* fetched makes no difference; an exception that escaped the fetch ends main().
AfterBracket(escaped, fetched, index, count) ==
    IF escaped # "" THEN "crashed"
    ELSE IF index = count THEN "season_end" ELSE "bracket"

\* The state after one iteration of the loop of lines 360-375, in which
\* fetch_bracket_data returned r; the outcomes offered to the leaderboard
\* request and to the character lookups were `out` and `outs`.
\* The outcomes that differ from the nominal ones are counted against MaxFaults;
\* an outcome that is never consumed is fixed to the nominal one.
BracketDone(season, bracket, out, outs, r) ==
    LET used == Len(outs) - Len(r.st.outs)
        fetched == r.escaped = "" /\ ~IsNone(r.result) /\ TruthyDict(r.result[1])
        cost == (IF out = NominalLb(season, bracket) THEN 0 ELSE 1)
                + Cardinality({i \in 1..used : outs[i] # NominalLookup})
    IN /\ IsNone(r.url) => out = NominalLb(season, bracket)
       /\ \A i \in (used + 1)..Len(outs) : outs[i] = NominalLookup
       /\ faults + cost <= MaxFaults
       \* line 365: raw_data = wow_client.fetch_bracket_data(...)
       /\ character_cache' = r.st.cache
       /\ lookup_log' = r.st.log
       /\ profile_requests' =
              [k \in (DOMAIN profile_requests) \cup LogKeys(r.st.log) |->
                  Get(profile_requests, k, 0) + NetCalls(r.st.log, k)]
       /\ profile_results' =
              [k \in (DOMAIN profile_results) \cup LogKeys(r.st.log) |->
                  Get(profile_results, k, {}) \cup Returned(r.st.log, k)]
       /\ lb_log' = lb_log \o r.url
       /\ lb_response' = IF IsNone(r.url) THEN None ELSE Some(out)
       /\ fetch_log' = Append(fetch_log, <<season, bracket>>)
       /\ raw_data' = r.result
       \* lines 367-370: if raw_data: filename = save_raw_data(...)
       /\ IF fetched
          THEN \E outcome \in SaveOutcomes :
                 LET saved == save_raw_data(r.result[1], bracket, season, "./data",
                                            files, outcome)
                     total == cost + (IF outcome = "ok" THEN 0 ELSE 1)
                 IN /\ faults + total <= MaxFaults
                    /\ faults' = faults + total
                    /\ files' = saved.files
                    /\ filename' = Some(saved.filename)
                    /\ save_log' = Append(save_log, <<season, bracket>>)
                    /\ success_count' = IF saved.filename # <<>> THEN success_count + 1
                                        ELSE success_count
                    /\ saved_log' = IF saved.filename # <<>>
                                    THEN Append(saved_log, <<season, bracket>>)
                                    ELSE saved_log
          ELSE /\ faults' = faults + cost
               /\ filename' = None
               /\ UNCHANGED <<files, save_log, success_count, saved_log>>
       /\ bi' = IF r.escaped # "" THEN bi ELSE bi + 1
       /\ pc' = AfterBracket(r.escaped, fetched, bi, Len(season_brackets))

\* The outcomes a leaderboard request can have with `budget` faults left.
LbOutcomesWithin(season, bracket, budget) ==
    IF budget > 0 THEN LbOutcomes(season, bracket) ELSE {NominalLb(season, bracket)}

\* Lines 360-375: one iteration of the bracket loop, the fetch and the save.
ProcessBracket ==
    /\ pc = "bracket"
    /\ \E out \in LbOutcomesWithin(seasons[si], season_brackets[bi], MaxFaults - faults) :
       \E slots \in {LookupSlots(access_token, enrich_data, out, character_cache)} :
       \E outs \in OutcomeSeqs(slots, MaxFaults - faults) :
       \E r \in {fetch_bracket_data(access_token, season_brackets[bi], seasons[si],
                                     enrich_data, out, StartState(outs))} :
         BracketDone(seasons[si], season_brackets[bi], out, outs, r)
    /\ UNCHANGED <<access_token, seasons, selected_brackets, enrich_data, si,
                   season_brackets, total_success, total_possible, tally,
                   token_requests,
                   token_response, probe>>

\* Lines 377-378 and 438-439: process_single_season returns and its result is
\* added to total_success; total_possible is not yet updated.
AddSeasonSuccess ==
    /\ pc = "season_end"
    /\ total_success' = total_success + success_count
    /\ pc' = "season_counted"
    \* the locals of process_single_season are gone
    /\ raw_data' = None
    /\ filename' = None
    /\ lb_response' = None
    /\ UNCHANGED <<access_token, character_cache, seasons, selected_brackets, enrich_data,
                   si, season_brackets, bi, success_count, total_possible, files, tally,
                   faults, token_requests, lb_log, fetch_log, lookup_log,
                   profile_requests, profile_results, save_log,
                   token_response, saved_log, probe>>

\* Lines 441-451: the brackets the season offers are added to total_possible,
\* then the loop goes to the next season or ends.
AddSeasonPossible ==
    /\ pc = "season_counted"
    /\ LET avail == get_available_brackets_for_season(seasons[si])
       IN total_possible' = total_possible + Len(FilterIn(selected_brackets, avail))
    /\ si' = IF si < Len(seasons) THEN si + 1 ELSE si
    /\ pc' = IF si < Len(seasons) THEN "season" ELSE "summary"
    /\ UNCHANGED <<access_token, character_cache, seasons, selected_brackets, enrich_data,
                   season_brackets, bi, success_count, total_success, raw_data, filename,
                   files, tally, faults, token_requests, lb_response, lb_log, fetch_log,
                   lookup_log, profile_requests, profile_results, save_log,
                   token_response, saved_log, probe>>

\* Lines 456-476: the final summary.
Summary ==
    /\ pc = "summary"
    /\ tally' = Some(<<total_success, total_possible>>)
    /\ pc' = "done"
    /\ UNCHANGED <<access_token, character_cache, seasons, selected_brackets, enrich_data,
                   si, season_brackets, bi, success_count, total_success, total_possible,
                   raw_data, filename, files, faults, token_requests, lb_response, lb_log,
                   fetch_log, lookup_log, profile_requests,
                   profile_results, save_log,
                   token_response, saved_log, probe>>

Next ==
    \/ GetAccessToken
    \/ GetSeasonInput
    \/ GetUserChoice
    \/ GetEnrichChoice
    \/ StartSeason
    \/ ProcessBracket
    \/ AddSeasonSuccess
    \/ AddSeasonPossible
    \/ Summary

Spec == Init /\ [][Next]_vars

\* main() is one sequential thread: an enabled step is eventually taken.
FairSpec == Spec /\ WF_vars(Next)

----------------------------------------------------------------------------
(* The functions of the client that depend on their arguments only, applied *)
(* on their own to arguments drawn from bounded sets.                     *)

\* Longest generated character name.
MaxNameLen == 2
\* Largest season the season policy and the URL builder are applied to.
MaxProbeSeason == 12

\* Longest sequence of calls of save_raw_data.
MaxSaves == 3

\* A, a, A-grave, a-grave and the percent sign.
NameChars == {65, 97, 192, 224, 37}

RECURSIVE NamesUpTo(_)
NamesUpTo(n) ==
    IF n = 0 THEN {<<>>}
    ELSE LET S == NamesUpTo(n - 1) IN S \cup {Append(s, c) : s \in S, c \in NameChars}

NameARTHAS == <<65, 82, 84, 72, 65, 83>>
NameArthas == <<97, 114, 116, 104, 97, 115>>
NameArthaGraveS == <<65, 114, 116, 104, 224, 115>>
NameLowerArthaGraveS == <<97, 114, 116, 104, 224, 115>>
NameUpperARTHAGraveS == <<65, 82, 84, 72, 192, 83>>

\* A CJK character (three UTF-8 bytes), an emoji (four) and a lone surrogate.
NameZhong == <<20013>>
NameEmoji == <<128512>>
NameLoneSurrogate == <<65, 55296>>

Names ==
    NamesUpTo(MaxNameLen) \cup
    {NameARTHAS, NameArthas, NameArthaGraveS, NameLowerArthaGraveS, NameUpperARTHAGraveS,
     NameZhong, NameEmoji, NameLoneSurrogate}

ProbeSeasons == 1 .. MaxProbeSeason
ProbeBrackets == {"2v2", "3v3", "5v5", "rbg", "solo"}

Probe(fn, args) == [fn |-> fn, args |-> args, applied |-> FALSE, out |-> <<>>]

Probes ==
    {Probe("cache_key", <<RealmR, a, b>>) : a \in Names, b \in Names}
    \cup {Probe("get_available_brackets_for_season", <<s>>) : s \in ProbeSeasons}
    \cup {Probe("get_api_url", <<s, b>>) : s \in ProbeSeasons, b \in ProbeBrackets}
    \cup {Probe("save_raw_data", <<"./data">>)}

\* A client in any state a run can leave it in: with or without a token, with
\* an empty or a filled cache.
PureInit ==
    /\ MainNotStarted
    /\ access_token \in {NoToken, "tok"}
    /\ character_cache \in {EmptyDict, Put(EmptyDict, cache_key(RealmR, <<97>>), Profile1.obj)}
    /\ probe \in Probes

Applied(out) == [probe EXCEPT !.applied = TRUE, !.out = out]

\* Lines 62-64 on two names, and again on the name derived from the first; no
\* key (None) for a name on which line 63 raises.
ApplyCacheKey ==
    /\ probe.fn = "cache_key" /\ ~probe.applied
    /\ LET realm == probe.args[1]
           a == probe.args[2]
           b == probe.args[3]
           raised_a == QuoteRaises(lowercase_name(a))
           raised_b == QuoteRaises(lowercase_name(b))
       IN  probe' = Applied([raised_a |-> raised_a,
                             raised_b |-> raised_b,
                             key_a |-> IF raised_a THEN None ELSE cache_key(realm, a),
                             key_b |-> IF raised_b THEN None ELSE cache_key(realm, b),
                             name_a |-> IF raised_a THEN None ELSE encoded_name(a),
                             name_again |-> IF raised_a THEN None
                                            ELSE encoded_name(encoded_name(a)),
                             key_again |-> IF raised_a THEN None
                                           ELSE cache_key(realm, encoded_name(a)),
                             fold_a |-> lowercase_name(a),
                             fold_again |-> lowercase_name(lowercase_name(a))])
    /\ UNCHANGED <<pc, access_token, character_cache, seasons, selected_brackets,
                   enrich_data, si, season_brackets, bi, success_count,
                   total_success, total_possible, raw_data, filename, files, tally,
                   faults, token_requests, lb_response, lb_log, fetch_log,
                   lookup_log, profile_requests, profile_results, save_log,
                   token_response, saved_log>>

\* Lines 232-239.
ApplyAvailableBrackets ==
    /\ probe.fn = "get_available_brackets_for_season" /\ ~probe.applied
    /\ probe' = Applied(get_available_brackets_for_season(probe.args[1]))
    /\ UNCHANGED <<pc, access_token, character_cache, seasons, selected_brackets,
                   enrich_data, si, season_brackets, bi, success_count,
                   total_success, total_possible, raw_data, filename, files, tally,
                   faults, token_requests, lb_response, lb_log, fetch_log,
                   lookup_log, profile_requests, profile_results, save_log,
                   token_response, saved_log>>

\* Lines 47-56.
ApplyApiUrl ==
    /\ probe.fn = "get_api_url" /\ ~probe.applied
    /\ probe' = Applied(get_api_url(probe.args[1], probe.args[2]))
    /\ UNCHANGED <<pc, access_token, character_cache, seasons, selected_brackets,
                   enrich_data, si, season_brackets, bi, success_count,
                   total_success, total_possible, raw_data, filename, files, tally,
                   faults, token_requests, lb_response, lb_log, fetch_log,
                   lookup_log, profile_requests, profile_results, save_log,
                   token_response, saved_log>>

SaveSeasons == {1}
SaveBrackets == {"2v2", "3v3"}
SaveData == {[entries |-> <<>>], [entries |-> <<Other>>]}

\* Lines 241-257, called again and again on one output directory; out is the
\* history of the calls with the path each returned.
ApplySave ==
    /\ probe.fn = "save_raw_data" /\ Len(probe.out) < MaxSaves
    /\ \E season \in SaveSeasons, bracket \in SaveBrackets, data \in SaveData,
          outcome \in SaveOutcomes :
          \E saved \in {save_raw_data(data, bracket, season, probe.args[1], files, outcome)} :
             /\ files' = saved.files
             /\ probe' = Applied(Append(probe.out,
                                        [season |-> season, bracket |-> bracket,
                                         data |-> data, path |-> saved.filename]))
    /\ UNCHANGED <<pc, access_token, character_cache, seasons, selected_brackets,
                   enrich_data, si, season_brackets, bi, success_count,
                   total_success, total_possible, raw_data, filename, tally,
                   faults, token_requests, lb_response, lb_log, fetch_log,
                   lookup_log, profile_requests, profile_results, save_log,
                   token_response, saved_log>>

PureNext ==
    \/ ApplyCacheKey
    \/ ApplyAvailableBrackets
    \/ ApplyApiUrl
    \/ ApplySave

PureSpec == PureInit /\ [][PureNext]_vars

----------------------------------------------------------------------------
(* Observations the properties below are stated with.                      *)

\* An iteration of the bracket loop has just ended: raw_data, filename,
\* lb_response and lookup_log are those of the unit (LastSeason, LastBracket).
UnitDone == pc \in {"bracket", "season_end"} /\ bi > 1
LastSeason == seasons[si]
LastBracket == season_brackets[bi - 1]

\* The last fetch issued a leaderboard request; Response is what came back.
Requested == lb_response # None
Response == lb_response[1]

\* save_raw_data was called for the last unit and returned a path.
Persisted == filename # None /\ filename[1] # <<>>

\* The refs the enrichment looks up: those with a non-empty name.
HasName(ref) == Get(ref, "name", <<>>) # <<>>
NamedRefs(entries) == SelectSeq(AllRefs(entries), HasName)
KeyOf(ref) == cache_key(RealmSlug(ref), ref["name"])

\* The two fields the enrichment adds to a ref ("" when absent).
PlayableOf(ref) == <<Get(ref, "playable_class", ""), Get(ref, "playable_race", "")>>

\* The entries of a decoded body and of the vendor's answer to the last fetch.
EntriesOf(data) == Get(data, "entries", <<>>)
VendorEntries == EntriesOf(Response.body.obj)

\* A lookup of the last fetch that returned no details.
LookupFailed(i) == lookup_log[i].res = None
\* A lookup of the last fetch that returned a decoded value that is no object.
LookupNotObject(i) == lookup_log[i].res # None /\ lookup_log[i].res[1].type # "object"

CountOf(s, x) == Cardinality({i \in DOMAIN s : s[i] = x})

----------------------------------------------------------------------------
(* Properties.                                                             *)

\* C1: when token acquisition fails (get_access_token returns False and
\* leaves access_token unset), main() ends at once: no leaderboard fetch is
\* called, no leaderboard request and no character-profile request is
\* issued, and no output file is written.
C1_TokenFailureAborts ==
    (pc # "token" /\ access_token = NoToken) =>
        /\ pc = "aborted"
        /\ fetch_log = <<>>
        /\ lb_log = <<>>
        /\ \A k \in DOMAIN profile_requests : profile_requests[k] = 0
        /\ lookup_log = <<>>
        /\ save_log = <<>>
        /\ files = EmptyDict

\* The token request was refused and the run has ended.
C1_Witness == pc = "aborted" /\ token_requests = 1 /\ access_token = NoToken

\* C2, as stated: for every cache key at most one character-profile request
\* is issued in the run, and every lookup of the key returns the same value.
C2_OneCallPerKey ==
    \A k \in DOMAIN profile_requests :
        /\ profile_requests[k] <= 1
        /\ Cardinality(profile_results[k]) <= 1

\* Within one fetch: after a lookup of a key has returned details, every
\* later lookup of that key is a cache hit that returns the same details.
C2_HitAfterDetails ==
    \A i, j \in DOMAIN lookup_log :
        (i < j /\ lookup_log[i].key = lookup_log[j].key /\ ~LookupFailed(i)) =>
            (~lookup_log[j].net /\ lookup_log[j].res = lookup_log[i].res)

\* Over the run: every lookup of a key that returned details returned the same
\* details, those the cache holds; a key is cached only by a request for it.
C2_OneValuePerKey ==
    /\ \A k \in DOMAIN profile_results : Cardinality(profile_results[k] \ {None}) <= 1
    /\ \A k \in DOMAIN profile_results :
           (profile_results[k] \ {None} # {}) =>
               (k \in DOMAIN character_cache /\ Some(character_cache[k]) \in profile_results[k])
    /\ \A k \in DOMAIN character_cache :
           /\ k \in DOMAIN profile_requests
           /\ profile_requests[k] >= 1
           /\ Some(character_cache[k]) \in profile_results[k]

\* A step leaves every cached key cached with the same details and issues no
\* further request for it.
C2_CachedKeyNotRequested ==
    \A k \in DOMAIN character_cache :
        /\ k \in DOMAIN character_cache'
        /\ character_cache'[k] = character_cache[k]
        /\ profile_requests'[k] = profile_requests[k]

\* C2, amended: for every cache key, once a character-profile request for it
\* has returned details (HTTP 200 with a decodable body) no further request
\* is issued for that key in the run, and every later lookup of the key
\* returns those same details from the cache.  A lookup that fails is not
\* cached, so the next entry that references the key issues a new request.
C2_OneCallPerKeyOnceCached ==
    /\ [](C2_HitAfterDetails /\ C2_OneValuePerKey)
    /\ [][C2_CachedKeyNotRequested]_vars

\* A key was looked up twice in one fetch: the first lookup went to the
\* network and returned details, the second was served from the cache.
C2_Witness ==
    \E i, j \in DOMAIN lookup_log :
        /\ i < j
        /\ lookup_log[i].key = lookup_log[j].key
        /\ lookup_log[i].net /\ ~LookupFailed(i)
        /\ ~lookup_log[j].net
        /\ profile_requests[lookup_log[i].key] = 1

\* Every requested season has had each of the selected brackets it offers
\* passed to fetch_bracket_data.
AllUnitsAttempted ==
    \A i \in DOMAIN seasons : \A b \in Range(selected_brackets) :
        ~(b = "rbg" /\ seasons[i] < RbgSeason) => <<seasons[i], b>> \in Range(fetch_log)

\* C3: once the inputs are read, the run reaches its summary having called
\* the leaderboard fetch for every requested season and every selected
\* bracket available in it, whatever the earlier units returned; the units
\* that were not fetched or not saved are the ones not counted as successes.
C3_EveryUnitAttempted ==
    (pc = "season" /\ si = 1) ~>
        (/\ pc = "done"
         /\ AllUnitsAttempted
         /\ Len(fetch_log) = total_possible
         /\ total_success <= Len(save_log)
         /\ total_success <= total_possible)

\* The fetch of the first unit failed after its leaderboard request was
\* issued, and the second unit was still fetched and saved.
C3_Witness ==
    /\ pc = "done"
    /\ faults = 1
    /\ Len(fetch_log) = 2
    /\ fetch_log[1][2] = "2v2" /\ fetch_log[2][2] = "3v3"
    /\ Len(lb_log) = 2
    /\ save_log = <<fetch_log[2]>>
    /\ tally = Some(<<1, 2>>)

\* C4: for a season below 9 the rbg bracket is never passed to the fetch and
\* no request is issued for it; the season's loop runs over exactly the other
\* selected brackets, and rbg adds nothing to the success count nor to the
\* attempted count of the run.
C4_RbgSkippedBelowSeason9 ==
    /\ \A i \in DOMAIN fetch_log :
           ~(fetch_log[i][1] < RbgSeason /\ fetch_log[i][2] = "rbg")
    /\ \A i \in DOMAIN seasons :
           seasons[i] < RbgSeason => get_api_url(seasons[i], "rbg") \notin Range(lb_log)
    /\ (pc = "season_end" /\ seasons[si] < RbgSeason) =>
           /\ season_brackets = DropRbg(selected_brackets)
           /\ success_count <= Len(season_brackets)
           /\ Len(fetch_log) >= Len(season_brackets)
           /\ \A i \in DOMAIN season_brackets :
                  fetch_log[Len(fetch_log) - Len(season_brackets) + i]
                      = <<seasons[si], season_brackets[i]>>
    /\ (pc \in {"summary", "done"}) =>
           /\ total_possible =
                  Len(seasons) * Len(selected_brackets)
                  - Cardinality({i \in DOMAIN seasons : seasons[i] < RbgSeason})
                        * CountOf(selected_brackets, "rbg")
           /\ total_success <= total_possible

\* A season below 9 has ended with rbg selected and another selected bracket
\* processed.
C4_Witness ==
    /\ pc = "season_end"
    /\ seasons[si] < RbgSeason
    /\ "rbg" \in Range(selected_brackets)
    /\ Len(season_brackets) >= 1
    /\ bi = Len(season_brackets) + 1
    /\ fetch_log[Len(fetch_log)] = <<seasons[si], season_brackets[bi - 1]>>

\* C5: with enrichment off no character-profile lookup is made and the cache
\* stays empty; a fetch that returns a dataset has issued exactly one
\* leaderboard request, to the unit's URL, and returns the vendor's body
\* unchanged; the file saved holds that body unchanged.
C5_NoEnrichmentWhenOff ==
    ~enrich_data =>
        /\ character_cache = EmptyDict
        /\ DOMAIN profile_requests = {}
        /\ lookup_log = <<>>
        /\ Len(lb_log) <= Len(fetch_log)
        /\ (UnitDone /\ raw_data # None) =>
               /\ Requested
               /\ Len(lb_log) = Len(fetch_log)
               /\ lb_log[Len(lb_log)] = get_api_url(LastSeason, LastBracket)
               /\ raw_data[1] = Response.body.obj
        /\ (UnitDone /\ Persisted) =>
               /\ filename[1] = FileName("./data", LastSeason, LastBracket)
               /\ files[filename[1]] = FileOf(Response.body.obj)

\* A leaderboard of three entries was fetched and saved with enrichment off.
C5_Witness ==
    /\ UnitDone /\ ~enrich_data /\ Persisted
    /\ Len(lb_log) = 1
    /\ Len(EntriesOf(files[filename[1]].data)) = 3

\* C6: when a character lookup of a fetch returns no details (the request
\* raised, answered another status than 200, or its body did not decode) and
\* no lookup returned a value that is no object, the fetch still returns the
\* dataset with every entry of the vendor's answer, the ref of a failed lookup
\* is the vendor's ref unchanged, every other named ref was looked up, the
\* dataset is handed to save_raw_data and the bracket loop goes on.
C6_FailedLookupKeepsEntry ==
    (/\ Requested /\ enrich_data
     /\ \E i \in DOMAIN lookup_log : lookup_log[i].net /\ LookupFailed(i)
     /\ \A i \in DOMAIN lookup_log : ~LookupNotObject(i)) =>
        /\ pc \in {"bracket", "season_end"}
        /\ raw_data # None
        /\ Len(EntriesOf(raw_data[1])) = Len(VendorEntries)
        /\ Len(NamedRefs(EntriesOf(raw_data[1]))) = Len(NamedRefs(VendorEntries))
        /\ Len(lookup_log) = Len(NamedRefs(VendorEntries))
        /\ \A i \in DOMAIN lookup_log :
               /\ lookup_log[i].key = KeyOf(NamedRefs(VendorEntries)[i])
               /\ LookupFailed(i) =>
                      NamedRefs(EntriesOf(raw_data[1]))[i] = NamedRefs(VendorEntries)[i]
               /\ ~LookupFailed(i) =>
                      NamedRefs(EntriesOf(raw_data[1]))[i]
                          = CopyFields(NamedRefs(VendorEntries)[i], lookup_log[i].res[1].obj)
        /\ filename # None
        /\ Persisted => files[filename[1]] = FileOf(raw_data[1])

\* A lookup failed, a later lookup of the same fetch returned details, and the
\* dataset was saved with the failed ref unchanged.
C6_Witness ==
    /\ Requested /\ enrich_data /\ Persisted
    /\ \E i, j \in DOMAIN lookup_log :
           /\ i < j
           /\ lookup_log[i].net /\ LookupFailed(i)
           /\ ~LookupFailed(j)
           /\ ~Has(NamedRefs(EntriesOf(files[filename[1]].data))[i], "playable_class")
           /\ Has(NamedRefs(EntriesOf(files[filename[1]].data))[j], "playable_class")

\* The last fetch returned a dataset of team entries, enrichment on.
TeamFetched ==
    /\ Requested /\ enrich_data /\ raw_data # None
    /\ \E i \in DOMAIN EntriesOf(raw_data[1]) : Has(EntriesOf(raw_data[1])[i], "team")

\* Two occurrences of one player among the named refs of the last fetch.
SharedPlayer(i, j) ==
    /\ i < j
    /\ lookup_log[i].key = lookup_log[j].key

\* C7, as stated: when two team entries of a bracket share a player, exactly
\* one character-profile request is issued for that player and both
\* occurrences carry identical playable_class and playable_race.
C7_SharedPlayerOneFetch ==
    TeamFetched =>
        \A i, j \in DOMAIN lookup_log :
            SharedPlayer(i, j) =>
                /\ profile_requests[lookup_log[i].key] = 1
                /\ PlayableOf(NamedRefs(EntriesOf(raw_data[1]))[i])
                       = PlayableOf(NamedRefs(EntriesOf(raw_data[1]))[j])

\* C7, amended: when two team entries of a bracket share a player and the
\* lookup at the first occurrence returns details, the second occurrence is a
\* cache hit, both occurrences carry identical playable_class and
\* playable_race in the dataset returned and in the file saved, and if that
\* first lookup went to the network it was the only request for the player in
\* that fetch; a player all of whose lookups in the run returned details was
\* requested exactly once in the run.  When the first lookup fails the second
\* occurrence issues a new request and the two occurrences can differ.
C7_SharedPlayerOneFetchOnceCached ==
    TeamFetched =>
        /\ Len(lookup_log) = Len(NamedRefs(EntriesOf(raw_data[1])))
        /\ \A i, j \in DOMAIN lookup_log :
               (SharedPlayer(i, j) /\ ~LookupFailed(i)) =>
                   /\ ~lookup_log[j].net
                   /\ lookup_log[i].net => NetCalls(lookup_log, lookup_log[i].key) = 1
                   /\ PlayableOf(NamedRefs(EntriesOf(raw_data[1]))[i])
                          = PlayableOf(NamedRefs(EntriesOf(raw_data[1]))[j])
        /\ \A k \in LogKeys(lookup_log) :
               None \notin profile_results[k] => profile_requests[k] = 1
        /\ Persisted => files[filename[1]] = FileOf(raw_data[1])

\* Two team entries share a player: the first occurrence was requested and
\* returned details, the second was a cache hit, and the file saved carries
\* the same class and race at both.
C7_Witness ==
    /\ TeamFetched /\ Persisted
    /\ \E i, j \in DOMAIN lookup_log :
           /\ SharedPlayer(i, j)
           /\ lookup_log[i].net /\ ~LookupFailed(i)
           /\ ~lookup_log[j].net
           /\ profile_requests[lookup_log[i].key] = 1
           /\ Has(NamedRefs(EntriesOf(files[filename[1]].data))[j], "playable_class")
           /\ PlayableOf(NamedRefs(EntriesOf(files[filename[1]].data))[i])
                  = PlayableOf(NamedRefs(EntriesOf(files[filename[1]].data))[j])

\* C8, as stated: a fetch whose leaderboard request is answered with another
\* status than 200 returns nothing and is not counted, save_raw_data is not
\* called for it, and the output directory holds no file of that (season,
\* bracket) written in this run.
C8_Non200LeavesNoFile ==
    (UnitDone /\ Requested /\ Response.kind = "http" /\ Response.status # 200) =>
        /\ raw_data = None
        /\ filename = None
        /\ success_count <= bi - 2
        /\ FileName("./data", LastSeason, LastBracket) \notin DOMAIN files

\* C9, as stated: a fetch answered HTTP 200 with a non-empty body that decodes
\* to an object without `error` returns the dataset, which is handed to
\* save_raw_data, and the unit is written and counted when the save succeeds.
C9_Http200IsSuccess ==
    (/\ UnitDone /\ Requested
     /\ Response.kind = "http" /\ Response.status = 200
     /\ Response.body.type = "object"
     /\ ~Has(Response.body.obj, "error")) =>
        /\ raw_data # None
        /\ filename # None
        /\ Persisted =>
               /\ files[filename[1]] = FileOf(raw_data[1])
               /\ success_count >= 1

\* The leaderboard request of the last fetch did not yield a dataset.
LbFailure(out) ==
    IF out.kind = "raise" THEN TRUE
    ELSE IF out.status # 200 THEN TRUE
    ELSE IF out.body.type # "object" THEN TRUE
    ELSE Has(out.body.obj, "error")

\* C10: no exception leaves fetch_bracket_data.  When the leaderboard request
\* raises, answers another status than 200, or its body is empty, does not
\* decode, is no object or carries `error`, and when the enrichment raises,
\* the fetch returns None, save_raw_data is not called and the loop goes on.
C10_FetchReturnsNoneOnFailure ==
    /\ pc # "crashed"
    /\ (Requested /\ LbFailure(Response)) =>
           (UnitDone /\ raw_data = None /\ filename = None)
    /\ (Requested /\ \E i \in DOMAIN lookup_log : LookupNotObject(i)) =>
           (UnitDone /\ raw_data = None /\ filename = None)

\* The leaderboard request raised an exception that only the last except
\* clause handles, and the loop went on.
C10_Witness ==
    /\ UnitDone /\ Requested
    /\ Response.kind = "raise" /\ Response.exc = "RequestException"
    /\ raw_data = None
    /\ Len(fetch_log) = Len(lb_log)

\* C11, as stated: a run never ends without the summary: whenever main() has
\* no further step, the tally has been reported.
C11_RunEndsWithTally == (~ENABLED Next) => (pc = "done" /\ tally # None)

\* The part of C11 that holds: once the season loop has started, the run
\* reaches the summary, which reports the totals of the loop, whichever fetch,
\* enrichment or save failures occur on the way; the tally is reported nowhere
\* else.  A run that ends before the loop (token failure, lines 392-395; empty
\* selection, lines 414-416; end of stdin at a prompt) reports no tally.
C11_SummaryOnceSeasonLoopStarts ==
    /\ (pc = "season" /\ si = 1) ~>
           (pc = "done" /\ tally = Some(<<total_success, total_possible>>))
    /\ [](tally # None => pc = "done")
    /\ [](pc \in {"aborted", "no_brackets", "eof"} =>
              (tally = None /\ fetch_log = <<>>))

\* The units of season s in the order of the selection: every selected bracket
\* but rbg below season 9.
OfferedIn(s, b) == ~(b = "rbg" /\ s < RbgSeason)
RECURSIVE UnitsOfSeason(_, _)
UnitsOfSeason(s, selected) ==
    IF selected = <<>> THEN <<>>
    ELSE (IF OfferedIn(s, Head(selected)) THEN <<<<s, Head(selected)>>>> ELSE <<>>)
         \o UnitsOfSeason(s, Tail(selected))

\* The units of the run in the order of the seasons, then of the selection.
RECURSIVE UnitsOfRun(_, _)
UnitsOfRun(ss, selected) ==
    IF ss = <<>> THEN <<>>
    ELSE UnitsOfSeason(Head(ss), selected) \o UnitsOfRun(Tail(ss), selected)

IsPrefix(s, t) == Len(s) <= Len(t) /\ s = SubSeq(t, 1, Len(s))

NoRepeat(s) == \A i, j \in DOMAIN s : i # j => s[i] # s[j]

\* The part of C12 that holds of every run: the order of the fetches, and no
\* repeated pair when the selection has no repeated bracket.
C12_InOrder ==
    /\ IsPrefix(fetch_log, UnitsOfRun(seasons, selected_brackets))
    /\ (UnitDone /\ Persisted) => files[filename[1]] = FileOf(raw_data[1])
    /\ NoRepeat(selected_brackets) => (NoRepeat(fetch_log) /\ NoRepeat(save_log))

\* C12, as stated: the units are fetched one after the other in the order of
\* the seasons and, within a season, of the selected brackets; over the run no
\* (season, bracket) pair is fetched twice and none is saved twice; a file
\* saved holds the dataset its unit's fetch returned.
C12_OneCyclePerPairInOrder ==
    /\ IsPrefix(fetch_log, UnitsOfRun(seasons, selected_brackets))
    /\ \A i \in DOMAIN save_log : \E j \in DOMAIN fetch_log : fetch_log[j] = save_log[i]
    /\ (UnitDone /\ Persisted) => files[filename[1]] = FileOf(raw_data[1])
    /\ NoRepeat(fetch_log)
    /\ NoRepeat(save_log)

----------------------------------------------------------------------------
(* C13: the cache key of a character name.                                 *)

KeyApplied == probe.fn = "cache_key" /\ probe.applied

IsAsciiLetter(c) == (65 <= c /\ c <= 90) \/ (97 <= c /\ c <= 122)

\* Two names that differ at most in the case of their letters A-Z.
SameUpToAsciiCase(a, b) ==
    /\ Len(a) = Len(b)
    /\ \A i \in DOMAIN a :
          \/ a[i] = b[i]
          \/ /\ IsAsciiLetter(a[i]) /\ IsAsciiLetter(b[i])
             /\ (a[i] - b[i] = 32 \/ b[i] - a[i] = 32)

\* C13, as stated: deriving the name of an already derived name yields the
\* same name and key; "ARTHAS" and "arthas" have the same key; "Arthàs" and
\* "arthàs" have distinct keys.
C13_KeyIdempotentAsciiFold ==
    (KeyApplied /\ ~probe.out.raised_a /\ ~probe.out.raised_b) =>
        /\ probe.out.name_again = probe.out.name_a
        /\ probe.out.key_again = probe.out.key_a
        /\ (probe.args[2] = NameARTHAS /\ probe.args[3] = NameArthas) =>
               probe.out.key_a = probe.out.key_b
        /\ (probe.args[2] = NameArthaGraveS /\ probe.args[3] = NameLowerArthaGraveS) =>
               probe.out.key_a # probe.out.key_b

\* C13, amended: two names have the same key exactly when they differ at most
\* in the case of letters A-Z, so "ARTHAS", "arthas" share a key, "Arthàs",
\* "arthàs" share a key too, and "ARTHÀS", "arthàs" do not; the case folding is
\* idempotent; the whole derivation is idempotent exactly on the names whose
\* characters the percent-encoding leaves alone.  A name that holds a lone
\* surrogate has no key: the derivation raises.
C13_KeyFoldsAsciiOnly ==
    KeyApplied =>
        /\ probe.out.raised_a <=>
               (\E i \in DOMAIN probe.args[2] :
                    55296 <= probe.args[2][i] /\ probe.args[2][i] <= 57343)
        /\ probe.out.raised_a => probe.out.key_a = None
        /\ probe.out.fold_again = probe.out.fold_a
        /\ (~probe.out.raised_a /\ ~probe.out.raised_b) =>
               ((probe.out.key_a = probe.out.key_b) <=>
                    SameUpToAsciiCase(probe.args[2], probe.args[3]))
        /\ ~probe.out.raised_a =>
               /\ (probe.out.name_again = probe.out.name_a) <=>
                      (\A i \in DOMAIN probe.args[2] : QuoteSafe(probe.args[2][i]))
               /\ (probe.out.key_again = probe.out.key_a) <=>
                      (probe.out.name_again = probe.out.name_a)
        /\ probe.args[2] = NameZhong =>
               probe.out.name_a = <<37, 69, 52, 37, 66, 56, 37, 65, 68>>
        /\ probe.args[2] = NameEmoji =>
               probe.out.name_a = <<37, 70, 48, 37, 57, 70, 37, 57, 56, 37, 56, 48>>

\* The keys of "ARTHÀS" and "arthàs" have been derived and differ, and the
\* name derived from "ARTHÀS" changes when it is derived again.
C13_Witness ==
    /\ KeyApplied
    /\ probe.args[2] = NameUpperARTHAGraveS /\ probe.args[3] = NameLowerArthaGraveS
    /\ probe.out.key_a # probe.out.key_b
    /\ probe.out.name_a = <<97, 114, 116, 104, 37, 67, 51, 37, 56, 48, 115>>
    /\ probe.out.name_again # probe.out.name_a

----------------------------------------------------------------------------
(* C14: token acquisition.                                                 *)

TokenAsked == token_response # None
TokenReported == pc # "aborted"
HasTokenField(out) ==
    /\ out.kind = "http" /\ out.status = 200
    /\ out.body.type = "object" /\ Has(out.body.obj, "access_token")

\* C14: get_access_token reports success exactly when the response is an HTTP
\* 200 whose decoded body has an access_token field, the stored token is then
\* that field; on every other response the stored token stays unset; exactly
\* one token request is made either way.
C14_TokenIffOkWithField ==
    TokenAsked =>
        /\ TokenReported <=> HasTokenField(token_response[1])
        /\ TokenReported => access_token = token_response[1].body.obj["access_token"]
        /\ ~TokenReported => access_token = NoToken
        /\ token_requests = 1

\* An HTTP 200 whose body decodes to an object without the field was answered
\* to the one token request, and the client reported failure with no token.
C14_Witness ==
    /\ token_response = Some(Http(200, BodyEmptyObject))
    /\ pc = "aborted" /\ access_token = NoToken /\ token_requests = 1

----------------------------------------------------------------------------
(* C15: the brackets a season offers.                                      *)

BracketsApplied == probe.fn = "get_available_brackets_for_season" /\ probe.applied

\* C15: for every season below 9 the available brackets are exactly 2v2, 3v3
\* and 5v5, for every season from 9 on exactly 2v2, 3v3, 5v5 and rbg, each
\* listed once.
C15_AvailableBracketsBySeason ==
    BracketsApplied =>
        /\ probe.args[1] < 9 => Range(probe.out) = {"2v2", "3v3", "5v5"}
        /\ probe.args[1] >= 9 => Range(probe.out) = {"2v2", "3v3", "5v5", "rbg"}
        /\ Len(probe.out) = Cardinality(Range(probe.out))

\* The policy has been asked for season 9, the first that offers rbg.
C15_Witness ==
    /\ BracketsApplied /\ probe.args[1] = 9
    /\ probe.out = <<"2v2", "3v3", "5v5", "rbg">>

----------------------------------------------------------------------------
(* C16: the output files after a sequence of saves.                        *)

SaveProbe == probe.fn = "save_raw_data"

\* The name the claim gives the file of a pair.
NameOfPair(season, bracket) ==
    <<"./data", "/season_", ToString(season), "_", bracket, "_tw_arena.json">>

\* The calls in the history that returned the path f.
SavedTo(history, f) == {i \in DOMAIN history : history[i].path = f}

LastOf(S) == CHOOSE i \in S : \A j \in S : j <= i

\* Every file is the file of a saved pair under the claimed name.
C16_FilesNamedByPair ==
    SaveProbe =>
        \A f \in DOMAIN files :
            \E i \in DOMAIN probe.out :
                f = NameOfPair(probe.out[i].season, probe.out[i].bracket)

\* Every file holds the dataset of the last call that returned its path.
C16_FileIsLastSaved ==
    SaveProbe =>
        \A f \in DOMAIN files :
            /\ SavedTo(probe.out, f) # {}
            /\ files[f] = FileOf(probe.out[LastOf(SavedTo(probe.out, f))].data)

\* A save leaves the files of the other pairs as they were.
C16_OtherFilesUnchanged ==
    (SaveProbe /\ probe'.out # probe.out) =>
        LET call == probe'.out[Len(probe'.out)] IN
        \A f \in DOMAIN files :
            f # NameOfPair(call.season, call.bracket) =>
                (f \in DOMAIN files' /\ files'[f] = files[f])

\* C16, as stated: after any sequence of saves there is at most one file per
\* (season, bracket), named season_{season}_{bracket}_tw_arena.json, holding
\* the dataset of the most recent successful save of that pair; the files of
\* other pairs are unchanged by a save, the content of a file being that of
\* the saves of its own pair only.
C16_OneFilePerPairLastSaved == C16_FilesNamedByPair /\ C16_FileIsLastSaved

\* The part of C16 that holds of every sequence of saves: the naming, the
\* other files left unchanged, and every file that was written to its end
\* holds the dataset of the last successful save of its pair.
C16_CompleteFileIsLastSaved ==
    /\ [](C16_FilesNamedByPair)
    /\ [](SaveProbe =>
            \A f \in DOMAIN files :
                files[f].complete =>
                    /\ SavedTo(probe.out, f) # {}
                    /\ files[f] = FileOf(probe.out[LastOf(SavedTo(probe.out, f))].data))
    /\ [][C16_OtherFilesUnchanged]_vars

----------------------------------------------------------------------------
(* C17: the leaderboard URL of a (season, bracket).                        *)

UrlApplied == probe.fn = "get_api_url" /\ probe.applied

\* {base}/pvp-season/{season}/pvp-leaderboard/{bracket}
SeasonScoped(url, season, bracket) ==
    /\ Len(url) = 5
    /\ url[2] = "pvp-season" /\ url[3] = ToString(season)
    /\ url[4] = "pvp-leaderboard" /\ url[5] = bracket

\* {base}/pvp-region/0/pvp-season/{season}/pvp-leaderboard/{bracket}
RegionScoped(url, season, bracket) ==
    /\ Len(url) = 7
    /\ url[2] = "pvp-region" /\ url[3] = "0"
    /\ url[4] = "pvp-season" /\ url[5] = ToString(season)
    /\ url[6] = "pvp-leaderboard" /\ url[7] = bracket

C17_ShapeBySeason ==
    UrlApplied =>
        /\ probe.out[1] = "https://tw.api.blizzard.com/data/wow"
        /\ probe.args[1] >= 9 => SeasonScoped(probe.out, probe.args[1], probe.args[2])
        /\ probe.args[1] < 9 => RegionScoped(probe.out, probe.args[1], probe.args[2])

\* C17: the URL of get_api_url is the season-scoped shape for every season
\* from 9 on and the region-scoped shape with region index 0 for every season
\* below 9, whatever the token and the cache of the client are (so the same
\* season and bracket always give the same URL), and the call changes nothing
\* of the client.
C17_UrlIsPureShapeBySeason ==
    /\ []C17_ShapeBySeason
    /\ [][probe.fn = "get_api_url" =>
             UNCHANGED <<access_token, character_cache, files, token_requests,
                         profile_requests, lb_log>>]_vars

\* The URL of season 8, the last region-scoped one, has been built on a client
\* that holds a token and a cached profile.
C17_Witness ==
    /\ UrlApplied /\ probe.args = <<8, "rbg">>
    /\ access_token = "tok" /\ character_cache # EmptyDict
    /\ probe.out = <<"https://tw.api.blizzard.com/data/wow", "pvp-region", "0",
                     "pvp-season", "8", "pvp-leaderboard", "rbg">>

----------------------------------------------------------------------------
(* C18: the character cache over the run.                                  *)

\* A step keeps every cached key with its value.
C18_NeverOverwrittenOrRemoved ==
    \A k \in DOMAIN character_cache :
        k \in DOMAIN character_cache' /\ character_cache'[k] = character_cache[k]

\* A step that adds a key stores the body of an HTTP 200 response to a
\* character-profile request for that key made in the step's fetch.
C18_WrittenAfter200 ==
    \A k \in DOMAIN character_cache' \ DOMAIN character_cache :
        \E i \in DOMAIN lookup_log' :
            /\ lookup_log'[i].key = k
            /\ lookup_log'[i].net /\ lookup_log'[i].status = 200
            /\ lookup_log'[i].res = Some(character_cache'[k])

\* Every lookup of a key that returned a value returned the cached one.
C18_OneValuePerKey ==
    \A k \in DOMAIN profile_results :
        profile_results[k] \ {None} \subseteq
            (IF k \in DOMAIN character_cache THEN {Some(character_cache[k])} ELSE {})

\* C18: the cache holds one value per key for the whole run: a key is added
\* only with the body of an HTTP 200 character-profile response, a present key
\* is never overwritten and never removed, over all brackets and seasons.
C18_CacheWriteOnceAfter200 ==
    /\ []C18_OneValuePerKey
    /\ [][C18_NeverOverwrittenOrRemoved /\ C18_WrittenAfter200]_vars

\* In a later fetch than the one that cached it, a key was served from the
\* cache, while a lookup answered 404 in this fetch left its key uncached.
C18_Witness ==
    /\ UnitDone /\ Len(fetch_log) >= 2
    /\ \E i, j \in DOMAIN lookup_log :
           /\ ~lookup_log[i].net /\ ~LookupFailed(i)
           /\ lookup_log[i].key \in DOMAIN character_cache
           /\ lookup_log[i].res = Some(character_cache[lookup_log[i].key])
           /\ NetCalls(lookup_log, lookup_log[i].key) = 0
           /\ lookup_log[j].net /\ lookup_log[j].status = 404
           /\ lookup_log[j].key \notin DOMAIN character_cache

----------------------------------------------------------------------------
(* C19: the success and attempted counts.                                  *)

\* C19, as stated: at every point of the run the success count is at most the
\* attempted count, in the totals of main() and within a season, and at the end
\* the success count is
\* the number of units whose fetch returned a dataset and whose save returned
\* a path, the attempted count the number of (season, selected bracket) units
\* whose bracket the season offers.
C19_SuccessAtMostAttempted ==
    /\ total_success <= total_possible
    /\ Len(saved_log) <= Len(fetch_log)
    /\ pc \in {"bracket", "season_end"} =>
           (success_count <= bi - 1 /\ bi - 1 <= Len(season_brackets))
    /\ pc \in {"summary", "done"} =>
           /\ total_success = Len(saved_log)
           /\ total_possible = Len(UnitsOfRun(seasons, selected_brackets))
    /\ pc = "done" =>
           tally = Some(<<Len(saved_log), Len(UnitsOfRun(seasons, selected_brackets))>>)

\* The season whose counts are being added to the totals, at lines 439-444.
SeasonBeingCounted == pc = "season_counted"

\* C19, amended: the success count is at most the attempted count before and
\* after every season of the loop and at the summary; between line 439 and
\* line 444 the success total already holds the season that the attempted
\* total does not yet hold, and exceeds it by at most that season's successes;
\* within a season the successes are at most the brackets processed; at the
\* end the success count is the number of units whose fetch returned a dataset
\* and whose save returned a path, the attempted count the number of (season,
\* selected bracket) units whose bracket the season offers.
C19_SuccessAtMostAttemptedBetweenSeasons ==
    /\ ~SeasonBeingCounted => total_success <= total_possible
    /\ SeasonBeingCounted =>
           /\ total_success - success_count <= total_possible
           /\ success_count <= Len(UnitsOfSeason(seasons[si], selected_brackets))
           /\ total_success <=
                  total_possible + Len(UnitsOfSeason(seasons[si], selected_brackets))
    /\ Len(saved_log) <= Len(fetch_log)
    /\ pc \in {"bracket", "season_end"} =>
           (success_count <= bi - 1 /\ bi - 1 <= Len(season_brackets))
    /\ pc \in {"summary", "done"} =>
           /\ total_success = Len(saved_log)
           /\ total_possible = Len(UnitsOfRun(seasons, selected_brackets))
    /\ pc = "done" =>
           tally = Some(<<Len(saved_log), Len(UnitsOfRun(seasons, selected_brackets))>>)

\* The first season's one success has been added to the success total and
\* the attempted total is still 0.
C19_AheadBetweenLines ==
    /\ SeasonBeingCounted /\ si = 1
    /\ total_success = 1 /\ total_possible = 0

\* A run of two units has ended: one was fetched and saved, the other failed,
\* and the tally is 1 of 2.
C19_Witness ==
    /\ pc = "done" /\ faults = 1
    /\ Len(fetch_log) = 2 /\ Len(saved_log) = 1
    /\ tally = Some(<<1, 2>>)

----------------------------------------------------------------------------
(* C20: process_entries_with_character_details on the entries of a fetch.  *)

\* The last fetch reached line 214: enrichment on, a decoded 200 answer that
\* is an object without "error" and with at least one entry.
EnrichmentRan ==
    /\ UnitDone /\ Requested /\ enrich_data
    /\ Response.kind = "http" /\ Response.status = 200
    /\ Response.body.type = "object" /\ ~Has(Response.body.obj, "error")
    /\ Len(VendorEntries) > 0

\* An entry with neither a character nor team members.
PassThrough(entry) ==
    ~Has(entry, "character") /\ ~(Has(entry, "team") /\ Has(entry["team"], "members"))

\* `after` is the ref `before` with at most fields added.
ExtendsRef(after, before) ==
    \A f \in DOMAIN before : f \in DOMAIN after /\ after[f] = before[f]

\* `after` is the entry `before`, its refs in the same places.
SameEntry(after, before) ==
    /\ DOMAIN after = DOMAIN before
    /\ PassThrough(before) => after = before
    /\ Len(EntryRefs(after)) = Len(EntryRefs(before))
    /\ \A k \in DOMAIN EntryRefs(before) :
           ExtendsRef(EntryRefs(after)[k], EntryRefs(before)[k])

\* The lookups of the last fetch are those of the named refs of the vendor's
\* entries, in entry order: none for an entry without refs.
LookupsInSourceOrder ==
    /\ Len(lookup_log) = Len(NamedRefs(VendorEntries))
    /\ \A i \in DOMAIN lookup_log : lookup_log[i].key = KeyOf(NamedRefs(VendorEntries)[i])

EntriesKept ==
    /\ raw_data # None
    /\ Len(EntriesOf(raw_data[1])) = Len(VendorEntries)
    /\ \A i \in DOMAIN VendorEntries : SameEntry(EntriesOf(raw_data[1])[i], VendorEntries[i])

\* C20, as stated: whatever the lookups answer, the enrichment returns the
\* entries in source order and in the same number, looks the refs up in source
\* order, and passes an entry without character and without team members
\* through unchanged and without a network call.
C20_EnrichmentKeepsOrderAndLength ==
    EnrichmentRan => (EntriesKept /\ LookupsInSourceOrder)

\* The part of C20 that holds of every fetch: the same, when every lookup
\* either failed or returned an object.
C20_KeepsOrderWhenDetailsAreObjects ==
    (EnrichmentRan /\ \A i \in DOMAIN lookup_log : ~LookupNotObject(i)) =>
        (EntriesKept /\ LookupsInSourceOrder)

====
